---------------------------- MODULE Spec2Model ----------------------------
(***************************************************************************)
(* Model of generate_and_upload_short.py: one run of main() after another  *)
(* against the persisted table riddles.xlsx (specification Spec), the      *)
(* greedy word wrap of render_text_image (specification SpecWrap) and the  *)
(* background selection of pick_background_clip (specification SpecBg).    *)
(*                                                                         *)
(* Python strings are sequences of one-character strings, so that strip()  *)
(* and lower() are computed and not assumed.  Durations are in hundredths  *)
(* of a second (3.0 s = 300, 0.5 s = 50).  Row positions are 1-based;      *)
(* pandas' idx is the position minus one, and None is 0.                   *)
(***************************************************************************)
EXTENDS Integers, Sequences, FiniteSets, TLC

VARIABLES
    \* ---- the run of main() (Spec) ----
    env,        \* os.environ restricted to the three credential variables
    excel,      \* the persisted table at EXCEL_PATH
    pc,         \* position of main() / build_short_and_upload()
    df,         \* the DataFrame load_next_riddle returned
    idx,        \* the selected position (0 = None)
    fields,     \* hook, body, opt1..3, answer, title_text read from the row
    bg_clip,    \* the background source of the run
    video,      \* the video track built so far
    voice,      \* duration of the synthesized voiceover
    music,      \* the music clip pick_music_clip returned (kind "none" = None)
    final_audio,\* the audio track attached to the video
    error,      \* the exception that ended the run ("" = none)
    \* ---- history of the runs ----
    stages,     \* stages of the run's state machine entered so far
    calls,      \* external calls made in this run
    uploaded,   \* positions uploaded, over all runs (what the platform holds)
    run,        \* number of the current run
    excel0,     \* the persisted table when the current run started
    prev,       \* what the previous run did
    extFailed,  \* an external service failed in this run
    \* ---- render_text_image's wrap loop (SpecWrap) ----
    words, wi, cur, lines, wpc,
    \* ---- pick_background_clip (SpecBg) ----
    duration, vids, bgImage, clip, bpc

runVars  == <<env, excel, pc, df, idx, fields, bg_clip, video, voice, music, final_audio,
              error, stages, calls, uploaded, run, excel0, prev, extFailed>>
wrapVars == <<words, wi, cur, lines, wpc>>
bgVars   == <<duration, vids, bgImage, clip, bpc>>
vars     == <<runVars, wrapVars, bgVars>>

-----------------------------------------------------------------------------
(* Bounds of the model *)

MaxRows == 2
MaxRuns == 2
MaxWords == 4
MaxWordUnits == 5
MaxTarget == 6
MaxClipLen == 4

-----------------------------------------------------------------------------
(* Python str: strip() and lower() *)

Upper == <<"A","B","C","D","E","F","G","H","I","J","K","L","M",
           "N","O","P","Q","R","S","T","U","V","W","X","Y","Z">>
Lower == <<"a","b","c","d","e","f","g","h","i","j","k","l","m",
           "n","o","p","q","r","s","t","u","v","w","x","y","z">>

IsSpace(c) == c \in {" ", "\t", "\n"}

LowerChar(c) ==
    IF \E i \in 1..26 : Upper[i] = c
    THEN Lower[CHOOSE i \in 1..26 : Upper[i] = c]
    ELSE c

\* str.lower()
StrLower(s) == [i \in 1..Len(s) |-> LowerChar(s[i])]

RECURSIVE LStrip(_)
LStrip(s) == IF s = <<>> THEN s
             ELSE IF IsSpace(Head(s)) THEN LStrip(Tail(s)) ELSE s

RECURSIVE RStrip(_)
RStrip(s) == IF s = <<>> THEN s
             ELSE IF IsSpace(s[Len(s)]) THEN RStrip(SubSeq(s, 1, Len(s) - 1)) ELSE s

\* str.strip()
Strip(s) == RStrip(LStrip(s))

-----------------------------------------------------------------------------
(* Column names *)

cTitle    == <<"T","i","t","l","e">>
cHook     == <<"H","o","o","k">>
cBody     == <<"B","o","d","y">>
cOption_1 == <<"O","p","t","i","o","n"," ","1">>
cOption_2 == <<"O","p","t","i","o","n"," ","2">>
cOption_3 == <<"O","p","t","i","o","n"," ","3">>
cAnswer   == <<"A","n","s","w","e","r">>
cUploaded == <<"U","p","l","o","a","d","e","d">>
cOption1  == <<"O","p","t","i","o","n","1">>
cOption2  == <<"O","p","t","i","o","n","2">>
cOption3  == <<"O","p","t","i","o","n","3">>

\* line 220
needed == <<cTitle, cHook, cBody, cOption_1, cOption_2, cOption_3, cAnswer, cUploaded>>

\* the keys build_short_and_upload indexes the row with, lines 241-246
lookedUp == <<cHook, cBody, cOption1, cOption2, cOption3, cAnswer>>

-----------------------------------------------------------------------------
(* Cells.  A cell of the sheet is a text, a boolean or empty; pandas reads  *)
(* an empty cell as NaN and writes NaN as an empty cell.                    *)

Text(s)  == [k |-> "text",  s |-> s,    b |-> FALSE]
Bool(b)  == [k |-> "bool",  s |-> <<>>, b |-> b]
Empty    == [k |-> "empty", s |-> <<>>, b |-> FALSE]
NaN      == [k |-> "nan",   s |-> <<>>, b |-> FALSE]

\* pd.read_excel on one cell
ReadCell(c)  == IF c.k = "empty" THEN NaN ELSE c
\* DataFrame.to_excel on one value
WriteCell(v) == IF v.k = "nan" THEN Empty ELSE v

\* str(v)
PyStr(v) ==
    CASE v.k = "text" -> v.s
      [] v.k = "bool" -> IF v.b THEN <<"T","r","u","e">> ELSE <<"F","a","l","s","e">>
      [] OTHER        -> <<"n","a","n">>


-----------------------------------------------------------------------------
(* The table and load_next_riddle / mark_uploaded_and_save *)

\* position of the first column called name (0 = no such column)
ColIndex(columns, name) ==
    IF \E i \in 1..Len(columns) : columns[i] = name
    THEN CHOOSE i \in 1..Len(columns) :
            columns[i] = name /\ \A j \in 1..(i - 1) : columns[j] # name
    ELSE 0

HasColumn(columns, name) == ColIndex(columns, name) # 0

\* line 216: pd.read_excel(EXCEL_PATH)
read_excel(t) ==
    [columns |-> t.headers,
     rows    |-> [r \in 1..Len(t.rows) |->
                    [c \in 1..Len(t.headers) |-> ReadCell(t.rows[r][c])]]]

\* line 218: c.strip()
NormalizeColumn(c) == Strip(c)

\* faulty variant: the comparison without lower()
IsUploadedCaseSensitive(v) == Strip(PyStr(v)) \in {<<"t","r","u","e">>, <<"1">>}
\* line 231: str(v).strip().lower() in ["true", "1"]
IsUploaded(v) == StrLower(Strip(PyStr(v))) \in {<<"t","r","u","e">>, <<"1">>}

\* row.get("Uploaded") of row r
UploadedOf(d, r) == d.rows[r][ColIndex(d.columns, cUploaded)]

\* faulty variant: the scan starts at the second row
FirstNotUploadedSkippingFirst(d) ==
    LET cand == {r \in 2..Len(d.rows) : ~IsUploaded(UploadedOf(d, r))}
    IN  IF cand = {} THEN 0 ELSE CHOOSE r \in cand : \A q \in cand : r <= q
\* lines 229-233: the first row, in stored order, that is not uploaded
FirstNotUploaded(d) ==
    LET cand == {r \in 1..Len(d.rows) : ~IsUploaded(UploadedOf(d, r))}
    IN  IF cand = {} THEN 0 ELSE CHOOSE r \in cand : \A q \in cand : r <= q

NoDf == [columns |-> <<>>, rows |-> <<>>]

\* lines 213-233; the result is (df, idx, row) or the exception raised
load_next_riddle(t) ==
    IF ~t.exists
    THEN [error |-> "FileNotFoundError", df |-> NoDf, idx |-> 0]
    ELSE LET raw == read_excel(t)
             d   == [raw EXCEPT !.columns =
                        [i \in 1..Len(raw.columns) |-> NormalizeColumn(raw.columns[i])]]
         IN  IF \E n \in 1..Len(needed) : ~HasColumn(d.columns, needed[n])
             THEN [error |-> "ValueError", df |-> NoDf, idx |-> 0]
             ELSE [error |-> "", df |-> d, idx |-> FirstNotUploaded(d)]

\* line 237: df.to_excel(EXCEL_PATH, index=False)
to_excel(d) ==
    [exists  |-> TRUE,
     headers |-> d.columns,
     rows    |-> [r \in 1..Len(d.rows) |->
                    [c \in 1..Len(d.columns) |-> WriteCell(d.rows[r][c])]]]

\* faulty variant: the assignment hits the whole row, not the one cell
SetWholeRowTrue(d, i) ==
    [d EXCEPT !.rows[i] = [c \in 1..Len(d.columns) |-> Bool(TRUE)]]
\* line 236: df.at[idx, "Uploaded"] = True
SetUploaded(d, i) ==
    [d EXCEPT !.rows[i][ColIndex(d.columns, cUploaded)] = Bool(TRUE)]

\* lines 235-237
mark_uploaded_and_save(d, i) == to_excel(SetUploaded(d, i))

-----------------------------------------------------------------------------
(* The tables and environments a run may start from *)

Pad(s) == <<" ">> \o s \o <<" ">>

HExact   == needed
HFull    == needed \o <<cOption1, cOption2, cOption3>>
HPadded  == [i \in 1..Len(HFull) |-> Pad(HFull[i])]
HLower   == [i \in 1..Len(HFull) |-> StrLower(HFull[i])]
HCompact == <<cTitle, cHook, cBody, cOption1, cOption2, cOption3, cAnswer, cUploaded>>
HNoFlag  == <<cTitle, cHook, cBody, cOption_1, cOption_2, cOption_3, cAnswer,
              cOption1, cOption2, cOption3>>

Layouts == {HExact, HFull, HPadded, HLower, HCompact, HNoFlag}

\* The flag values a sheet may hold: published in several spellings, and not.
\* The boolean true is what mark_uploaded_and_save leaves behind.
PublishedCells == {Bool(TRUE), Text(<<"T","R","U","E">>),
                   Text(<<" ","t","r","u","e"," ">>), Text(<<"1">>)}
OpenCells      == {Empty, Bool(FALSE)}
FlagCells      == (PublishedCells \ {Bool(TRUE)}) \cup OpenCells

Digits == <<"1","2","3","4","5","6","7","8","9","a","b","c">>

\* the column of a layout that holds the flag, whatever its spelling (0 = none)
FlagColumn(h) ==
    IF \E c \in 1..Len(h) : StrLower(Strip(h[c])) = StrLower(cUploaded)
    THEN CHOOSE c \in 1..Len(h) : StrLower(Strip(h[c])) = StrLower(cUploaded)
    ELSE 0

\* the content of row r, column c: a text naming the cell, some cells empty
DataCell(r, c) == IF (r + c) % 4 = 0 THEN Empty ELSE Text(<<Digits[r], Digits[c]>>)

MakeRow(h, r, flag) ==
    LET fc == FlagColumn(h)
    IN  [c \in 1..Len(h) |-> IF c = fc THEN flag ELSE DataCell(r, c)]

NoFile == [exists |-> FALSE, headers |-> <<>>, rows |-> <<>>]

Tables ==
    {NoFile} \cup
    UNION { { [exists |-> TRUE, headers |-> h,
               rows |-> [r \in 1..n |-> MakeRow(h, r, fl[r])]] :
              fl \in [1..n -> FlagCells] } :
            h \in Layouts, n \in 0..MaxRows }

Unset    == [present |-> FALSE, s |-> <<>>]
EmptyVar == [present |-> TRUE,  s |-> <<>>]
SetVar   == [present |-> TRUE,  s |-> <<"x">>]

EnvNames == {"YT_CLIENT_ID", "YT_CLIENT_SECRET", "YT_REFRESH_TOKEN"}

\* all three set, or exactly one of them missing or empty
Envs ==
    {[n \in EnvNames |-> SetVar]} \cup
    {[n \in EnvNames |-> IF n = bad THEN v ELSE SetVar] :
        bad \in EnvNames, v \in {Unset, EmptyVar}}

\* Python truthiness of os.environ.get(name)
Truthy(v) == v.present /\ Len(v.s) > 0

\* faulty variant: the credentials are not checked
AcceptsAnyEnv(e) == TRUE
\* line 326: YT_CLIENT_ID and YT_CLIENT_SECRET and YT_REFRESH_TOKEN
CredentialsSet(e) ==
    Truthy(e["YT_CLIENT_ID"]) /\ Truthy(e["YT_CLIENT_SECRET"]) /\ Truthy(e["YT_REFRESH_TOKEN"])

-----------------------------------------------------------------------------
(* Configuration, lines 40-72 (durations in hundredths of a second) *)

WIDTH == 1080
HOOK_DURATION == 300
BODY_DURATION == 500
OPTIONS_DURATION == 500
ANSWER_DURATION == 300
PADDING_AFTER_AUDIO == 50
TEXT_MARGIN == 80

-----------------------------------------------------------------------------
(* Clips (moviepy): a clip is its kind, the length of its source, the      *)
(* number of whole copies of the source it is made of, and its duration.   *)

NoClip == [kind |-> "none", src |-> 0, copies |-> 0, duration |-> 0]

\* math.ceil(a / b), b > 0
Ceil(a, b) == (a + b - 1) \div b

\* VideoFileClip(path) / AudioFileClip(path): the file's own length
FileClip(kind, len) == [kind |-> kind, src |-> len, copies |-> 1, duration |-> len]

\* ImageClip(path): a still has no duration of its own
ImageClip(kind) == [kind |-> kind, src |-> 0, copies |-> 1, duration |-> 0]

\* concatenate_videoclips([c] * loops), concatenate_audioclips([c] * loops)
concatenate(c, loops) == [c EXCEPT !.copies = loops, !.duration = c.duration * loops]

set_duration(c, d) == [c EXCEPT !.duration = d]

\* c.subclip(0, t_end)
subclip(c, t_end) == [c EXCEPT !.duration = t_end - 0]

\* faulty variant: the looped copies are not cut to the target
LoopWithoutSetDuration(c, d) ==
    IF c.duration < d
    THEN concatenate(c, Ceil(d, c.duration))
    ELSE subclip(c, d)
\* lines 84-89 and 110-116: loop whole copies and cut, or truncate
LoopOrTrim(c, d) ==
    IF c.duration < d
    THEN set_duration(concatenate(c, Ceil(d, c.duration)), d)
    ELSE subclip(c, d)

\* lines 75-101; vs: the lengths of the files matching BG_VIDEO_GLOB, path: the
\* one random.choice picks, img: whether BG_IMAGE exists
pick_background_clip(d, vs, path, img) ==
    IF vs # {}
    THEN LoopOrTrim(FileClip("video", path), d)
    ELSE IF img
         THEN set_duration(ImageClip("image"), d)
         ELSE set_duration(ImageClip("solid"), d)

\* lines 103-118; fs: the lengths of the files matching MUSIC_GLOB
pick_music_clip(d, fs, path) ==
    IF fs = {} THEN NoClip ELSE LoopOrTrim(FileClip("music", path), d)

\* lines 260-272: the four slides over the background, concatenated
SlideDurations == <<HOOK_DURATION, BODY_DURATION, OPTIONS_DURATION, ANSWER_DURATION>>

RECURSIVE SumSeq(_)
SumSeq(q) == IF q = <<>> THEN 0 ELSE Head(q) + SumSeq(Tail(q))

\* line 250
total_audio_length ==
    HOOK_DURATION + BODY_DURATION + OPTIONS_DURATION + ANSWER_DURATION + PADDING_AFTER_AUDIO

\* lines 287-294: the duration of final_audio
FinalAudioDuration(v, m) ==
    IF m.kind # "none" THEN v + PADDING_AFTER_AUDIO ELSE v

\* faulty variant: the video is not extended to the audio
VideoAsBuilt(vd, ad) == vd
\* lines 297-298: the video is extended to the audio, never cut
FinalVideoDuration(vd, ad) == IF vd < ad THEN ad ELSE vd

-----------------------------------------------------------------------------
(* A run of main(), lines 319-344, with build_short_and_upload inlined *)

NoFields == [hook |-> <<>>, body |-> <<>>, opt1 |-> <<>>, opt2 |-> <<>>,
             opt3 |-> <<>>, answer |-> <<>>, title_text |-> <<>>]
NoCalls  == [refresh |-> 0, render |-> 0, tts |-> 0, encode |-> 0,
             upload |-> 0, write |-> 0]
NoPrev   == [outcome |-> "none", idx |-> 0, uploadedIt |-> FALSE, excel0 |-> NoFile]

\* the lengths of the asset files a run may find (hundredths of a second)
BgVideoLens    == {700, 3000}
MusicLens      == {500, 3000}
VoiceDurations == {1000, 1560, 2030}

locals == <<df, idx, fields, bg_clip, video, voice, music, final_audio>>
others == <<wrapVars, bgVars>>

RunInit ==
    /\ excel \in Tables
    /\ env \in Envs
    /\ pc = "main"
    /\ df = NoDf /\ idx = 0 /\ fields = NoFields
    /\ bg_clip = NoClip /\ video = NoClip /\ voice = 0 /\ music = NoClip /\ final_audio = 0
    /\ error = ""
    /\ stages = <<>> /\ calls = NoCalls /\ uploaded = <<>>
    /\ run = 1 /\ excel0 = excel /\ prev = NoPrev /\ extFailed = FALSE

\* an exception leaves main(): the process ends and its locals are gone
Raise(e) ==
    /\ pc' = "failed"
    /\ error' = e
    /\ df' = NoDf /\ fields' = NoFields
    /\ bg_clip' = NoClip /\ video' = NoClip /\ voice' = 0 /\ music' = NoClip /\ final_audio' = 0

\* lines 321-327
CheckEnv ==
    /\ pc = "main"
    /\ IF CredentialsSet(env)
       THEN pc' = "load" /\ UNCHANGED <<error, locals>>
       ELSE Raise("EnvironmentError") /\ UNCHANGED idx
    /\ UNCHANGED <<env, excel, stages, calls, uploaded, run, excel0, prev, extFailed, others>>

\* faulty variant: the record is marked when it is selected
SelectRecordAndMark ==
    /\ pc = "load"
    /\ LET res == load_next_riddle(excel)
       IN  IF res.error # ""
           THEN Raise(res.error) /\ UNCHANGED <<idx, excel>>
           ELSE /\ df' = res.df
                /\ idx' = res.idx
                /\ pc' = IF res.idx = 0 THEN "exit" ELSE "refresh"
                /\ excel' = IF res.idx = 0 THEN excel
                            ELSE mark_uploaded_and_save(res.df, res.idx)
                /\ UNCHANGED <<error, fields, bg_clip, video, voice, music, final_audio>>
    /\ stages' = Append(stages, "SELECT_RECORD")
    /\ UNCHANGED <<env, calls, uploaded, run, excel0, prev, extFailed, others>>
\* lines 330-335: SELECT_RECORD
SelectRecord ==
    /\ pc = "load"
    /\ LET res == load_next_riddle(excel)
       IN  IF res.error # ""
           THEN Raise(res.error) /\ UNCHANGED idx
           ELSE /\ df' = res.df
                /\ idx' = res.idx
                /\ pc' = IF res.idx = 0 THEN "exit" ELSE "refresh"
                /\ UNCHANGED <<error, fields, bg_clip, video, voice, music, final_audio>>
    /\ stages' = Append(stages, "SELECT_RECORD")
    /\ UNCHANGED <<env, excel, calls, uploaded, run, excel0, prev, extFailed, others>>

\* line 336: get_credentials_from_refresh_token returns credentials
RefreshToken ==
    /\ pc = "refresh"
    /\ pc' = "fields"
    /\ calls' = [calls EXCEPT !.refresh = @ + 1]
    /\ UNCHANGED <<env, excel, error, locals, stages, uploaded, run, excel0, prev,
                   extFailed, others>>

\* lines 178-183: the token endpoint fails or returns no access token
RefreshTokenFails ==
    /\ pc = "refresh"
    /\ Raise("TokenRefreshError")
    /\ calls' = [calls EXCEPT !.refresh = @ + 1]
    /\ extFailed' = TRUE
    /\ UNCHANGED <<env, excel, idx, stages, uploaded, run, excel0, prev, others>>

\* riddle_row[key]
RowValue(key) == PyStr(df.rows[idx][ColIndex(df.columns, key)])

\* lines 241-247: riddle_row["Hook"] ... riddle_row["Option1"] ...
ReadFields ==
    /\ pc = "fields"
    /\ IF \E n \in 1..Len(lookedUp) : ~HasColumn(df.columns, lookedUp[n])
       THEN Raise("KeyError") /\ UNCHANGED idx
       ELSE /\ fields' = [hook |-> RowValue(cHook), body |-> RowValue(cBody),
                          opt1 |-> RowValue(cOption1), opt2 |-> RowValue(cOption2),
                          opt3 |-> RowValue(cOption3), answer |-> RowValue(cAnswer),
                          title_text |-> RowValue(cTitle)]
            /\ pc' = "bg"
            /\ UNCHANGED <<error, df, idx, bg_clip, video, voice, music, final_audio>>
    /\ UNCHANGED <<env, excel, stages, calls, uploaded, run, excel0, prev, extFailed, others>>

\* lines 250-251
PickBackground ==
    /\ pc = "bg"
    /\ \E vs \in SUBSET BgVideoLens, img \in BOOLEAN :
         \E path \in (IF vs = {} THEN {0} ELSE vs) :
            bg_clip' = pick_background_clip(total_audio_length, vs, path, img)
    /\ pc' = "render"
    /\ UNCHANGED <<env, excel, error, df, idx, fields, video, voice, music, final_audio,
                   stages, calls, uploaded, run, excel0, prev, extFailed, others>>

\* lines 254-263: RENDER_SLIDES, four calls of render_text_image
RenderSlides ==
    /\ pc = "render"
    /\ pc' = "composite"
    /\ stages' = Append(stages, "RENDER_SLIDES")
    /\ calls' = [calls EXCEPT !.render = @ + 4]
    /\ UNCHANGED <<env, excel, error, locals, uploaded, run, excel0, prev, extFailed, others>>

\* the imaging library raises (no usable font API, no temporary file)
RenderFails ==
    /\ pc = "render"
    /\ Raise("RenderError")
    /\ stages' = Append(stages, "RENDER_SLIDES")
    /\ calls' = [calls EXCEPT !.render = @ + 1]
    /\ extFailed' = TRUE
    /\ UNCHANGED <<env, excel, idx, uploaded, run, excel0, prev, others>>

\* lines 266-276: COMPOSITE_VIDEO.  Each slide lasts what its slice of the
\* background lasts; the logo, when LOGO_PATH exists, is held for video.duration
\* and leaves the track's duration as it is
CompositeVideo ==
    /\ pc = "composite"
    /\ video' = [kind |-> "slides", src |-> 0, copies |-> Len(SlideDurations),
                 duration |-> SumSeq([i \in 1..Len(SlideDurations) |->
                      subclip(bg_clip, SlideDurations[i]).duration])]
    /\ pc' = "tts"
    /\ stages' = Append(stages, "COMPOSITE_VIDEO")
    /\ UNCHANGED <<env, excel, error, df, idx, fields, bg_clip, voice, music, final_audio,
                   calls, uploaded, run, excel0, prev, extFailed, others>>

\* lines 279-283: SYNTHESIZE_AUDIO; the service decides how long the speech is
SynthesizeAudio ==
    /\ pc = "tts"
    /\ voice' \in VoiceDurations
    /\ pc' = "mix"
    /\ stages' = Append(stages, "SYNTHESIZE_AUDIO")
    /\ calls' = [calls EXCEPT !.tts = @ + 1]
    /\ UNCHANGED <<env, excel, error, df, idx, fields, bg_clip, video, music,
                   final_audio, uploaded, run, excel0, prev, extFailed, others>>

\* lines 168-169: the speech service fails
SynthesizeFails ==
    /\ pc = "tts"
    /\ Raise("gTTSError")
    /\ stages' = Append(stages, "SYNTHESIZE_AUDIO")
    /\ calls' = [calls EXCEPT !.tts = @ + 1]
    /\ extFailed' = TRUE
    /\ UNCHANGED <<env, excel, idx, uploaded, run, excel0, prev, others>>

\* lines 285-294: MIX_AUDIO
MixAudio ==
    /\ pc = "mix"
    /\ \E fs \in SUBSET MusicLens :
         \E path \in (IF fs = {} THEN {0} ELSE fs) :
            LET m == pick_music_clip(voice + PADDING_AFTER_AUDIO, fs, path)
            IN  music' = m /\ final_audio' = FinalAudioDuration(voice, m)
    /\ pc' = "finalize"
    /\ stages' = Append(stages, "MIX_AUDIO")
    /\ UNCHANGED <<env, excel, error, df, idx, fields, bg_clip, video, voice,
                   calls, uploaded, run, excel0, prev, extFailed, others>>

\* lines 296-309: FINALIZE_VIDEO, the file is encoded and written
FinalizeVideo ==
    /\ pc = "finalize"
    /\ video' = set_duration(video, FinalVideoDuration(video.duration, final_audio))
    /\ pc' = "upload"
    /\ stages' = Append(stages, "FINALIZE_VIDEO")
    /\ calls' = [calls EXCEPT !.encode = @ + 1]
    /\ UNCHANGED <<env, excel, error, df, idx, fields, bg_clip, voice, music, final_audio,
                   uploaded, run, excel0, prev, extFailed, others>>

\* line 303: the encoder fails
EncodeFails ==
    /\ pc = "finalize"
    /\ Raise("EncodeError")
    /\ stages' = Append(stages, "FINALIZE_VIDEO")
    /\ calls' = [calls EXCEPT !.encode = @ + 1]
    /\ extFailed' = TRUE
    /\ UNCHANGED <<env, excel, idx, uploaded, run, excel0, prev, others>>

\* lines 311-317 and 339-340: UPLOAD returns a response; build_short_and_upload
\* returns and its locals are gone
Upload ==
    /\ pc = "upload"
    /\ uploaded' = Append(uploaded, idx)
    /\ pc' = "mark"
    /\ stages' = Append(stages, "UPLOAD")
    /\ calls' = [calls EXCEPT !.upload = @ + 1]
    /\ fields' = NoFields /\ bg_clip' = NoClip /\ video' = NoClip
    /\ voice' = 0 /\ music' = NoClip /\ final_audio' = 0
    /\ UNCHANGED <<env, excel, error, df, idx, run, excel0, prev, extFailed, others>>

\* lines 206-207: next_chunk raises, nothing was published
UploadFails ==
    /\ pc = "upload"
    /\ Raise("HttpError")
    /\ stages' = Append(stages, "UPLOAD")
    /\ calls' = [calls EXCEPT !.upload = @ + 1]
    /\ extFailed' = TRUE
    /\ UNCHANGED <<env, excel, idx, uploaded, run, excel0, prev, others>>

\* lines 343-344: MARK_PUBLISHED
MarkPublished ==
    /\ pc = "mark"
    /\ excel' = mark_uploaded_and_save(df, idx)
    /\ pc' = "exit"
    /\ df' = NoDf
    /\ stages' = Append(stages, "MARK_PUBLISHED")
    /\ calls' = [calls EXCEPT !.write = @ + 1]
    /\ UNCHANGED <<env, error, idx, fields, bg_clip, video, voice, music, final_audio,
                   uploaded, run, excel0, prev, extFailed, others>>

\* the run ends after the upload returned and before the table is written
\* (the process is stopped, or the table cannot be opened for writing)
FailsBeforeSave ==
    /\ pc = "mark"
    /\ Raise("OSError")
    /\ extFailed' = TRUE
    /\ UNCHANGED <<env, excel, idx, stages, calls, uploaded, run, excel0, prev, others>>

Ended == pc \in {"exit", "failed"}

\* the operator, or the scheduler, starts the script again
Rerun ==
    /\ Ended
    /\ run < MaxRuns
    /\ run' = run + 1
    /\ env' \in Envs
    /\ prev' = [outcome |-> pc, idx |-> idx,
                uploadedIt |-> calls.upload > 0 /\ error # "HttpError",
                excel0 |-> excel0]
    /\ excel0' = excel
    /\ pc' = "main"
    /\ error' = ""
    /\ df' = NoDf /\ idx' = 0 /\ fields' = NoFields
    /\ bg_clip' = NoClip /\ video' = NoClip /\ voice' = 0 /\ music' = NoClip /\ final_audio' = 0
    /\ stages' = <<>> /\ calls' = NoCalls /\ extFailed' = FALSE
    /\ UNCHANGED <<excel, uploaded, others>>

-----------------------------------------------------------------------------
(* render_text_image's greedy wrap, lines 133-146.  A word is its rendered *)
(* width in pixels; a line is the positions of its words; the width of a   *)
(* text is the widths of its words plus one space between neighbours.      *)

\* line 133, with size = (WIDTH, HEIGHT)
maxw == WIDTH - 2 * TEXT_MARGIN

\* the widths a word may have: from well inside the line to wider than it
WordWidths == {230 * k : k \in 1..MaxWordUnits}

\* draw.textsize(" ".join(line))[0]
TextWidth(ws, line) ==
    IF line = <<>> THEN 0
    ELSE SumSeq([j \in 1..Len(line) |-> ws[line[j]]]) + 16 * (Len(line) - 1)

\* faulty variant: the width tested is the line's before the word is added
WrapStepTestingCur(ws, c, ls, i) ==
    IF TextWidth(ws, c) <= maxw
    THEN [cur |-> Append(c, i), lines |-> ls]
    ELSE [cur |-> <<i>>, lines |-> Append(ls, c)]
\* lines 138-144: one turn of the loop, for the word at position i
WrapStep(ws, c, ls, i) ==
    LET test == Append(c, i)
    IN  IF TextWidth(ws, test) <= maxw
        THEN [cur |-> test, lines |-> ls]
        ELSE [cur |-> <<i>>, lines |-> Append(ls, c)]

WrapInit ==
    /\ words \in UNION {[1..n -> WordWidths] : n \in 0..MaxWords}
    /\ wi = 1 /\ cur = <<>> /\ lines = <<>> /\ wpc = "loop"

WrapIdle ==
    words = <<>> /\ wi = 1 /\ cur = <<>> /\ lines = <<>> /\ wpc = "idle"

\* lines 137-144
WrapWord ==
    /\ wpc = "loop"
    /\ wi <= Len(words)
    /\ LET st == WrapStep(words, cur, lines, wi)
       IN  cur' = st.cur /\ lines' = st.lines
    /\ wi' = wi + 1
    /\ UNCHANGED <<words, wpc, runVars, bgVars>>

\* lines 145-146
WrapFlush ==
    /\ wpc = "loop"
    /\ wi > Len(words)
    /\ lines' = IF cur # <<>> THEN Append(lines, cur) ELSE lines
    /\ wpc' = "done"
    /\ UNCHANGED <<words, wi, cur, runVars, bgVars>>

-----------------------------------------------------------------------------
(* pick_background_clip on its own, for every target and every asset set *)

BgInit ==
    /\ duration \in 1..MaxTarget
    /\ vids \in SUBSET (1..MaxClipLen)
    /\ bgImage \in BOOLEAN
    /\ clip = NoClip
    /\ bpc = "start"

BgIdle ==
    duration = 0 /\ vids = {} /\ bgImage = FALSE /\ clip = NoClip /\ bpc = "idle"

\* lines 75-101
PickBackgroundClip ==
    /\ bpc = "start"
    /\ \E path \in (IF vids = {} THEN {0} ELSE vids) :
          clip' = pick_background_clip(duration, vids, path, bgImage)
    /\ bpc' = "done"
    /\ UNCHANGED <<duration, vids, bgImage, runVars, wrapVars>>

-----------------------------------------------------------------------------
(* Specifications *)

RunIdle ==
    /\ env = [n \in EnvNames |-> SetVar]
    /\ excel = NoFile /\ excel0 = NoFile
    /\ pc = "idle"
    /\ df = NoDf /\ idx = 0 /\ fields = NoFields
    /\ bg_clip = NoClip /\ video = NoClip /\ voice = 0 /\ music = NoClip /\ final_audio = 0
    /\ error = ""
    /\ stages = <<>> /\ calls = NoCalls /\ uploaded = <<>>
    /\ run = 1 /\ prev = NoPrev /\ extFailed = FALSE

Init == RunInit /\ WrapIdle /\ BgIdle

Next ==
    \/ CheckEnv
    \/ SelectRecord
    \/ RefreshToken
    \/ RefreshTokenFails
    \/ ReadFields
    \/ PickBackground
    \/ RenderSlides
    \/ RenderFails
    \/ CompositeVideo
    \/ SynthesizeAudio
    \/ SynthesizeFails
    \/ MixAudio
    \/ FinalizeVideo
    \/ EncodeFails
    \/ Upload
    \/ UploadFails
    \/ MarkPublished
    \/ FailsBeforeSave
    \/ Rerun

Spec == Init /\ [][Next]_vars

WrapNext == WrapWord \/ WrapFlush

InitWrap == RunIdle /\ WrapInit /\ BgIdle

SpecWrap == InitWrap /\ [][WrapNext]_vars

BgNext == PickBackgroundClip

InitBg == RunIdle /\ WrapIdle /\ BgInit

SpecBg == InitBg /\ [][BgNext]_vars

-----------------------------------------------------------------------------
(* Vocabulary of the properties, stated on the persisted table itself *)

AllStages == <<"SELECT_RECORD", "RENDER_SLIDES", "COMPOSITE_VIDEO", "SYNTHESIZE_AUDIO",
               "MIX_AUDIO", "FINALIZE_VIDEO", "UPLOAD", "MARK_PUBLISHED">>

LoadErrors == {"ValueError", "FileNotFoundError"}

\* the column of t whose header, surrounding blanks aside, is name (0 = none)
ColumnNamed(t, name) ==
    IF \E c \in 1..Len(t.headers) : Strip(t.headers[c]) = name
    THEN CHOOSE c \in 1..Len(t.headers) : Strip(t.headers[c]) = name
    ELSE 0

HasRequiredColumns(t) ==
    t.exists /\ \A n \in 1..Len(needed) : ColumnNamed(t, needed[n]) # 0

\* the flag cell of record r as the sheet holds it
FlagOf(t, r) == t.rows[r][ColumnNamed(t, cUploaded)]

HasFlagColumn(t) == t.exists /\ ColumnNamed(t, cUploaded) # 0

\* the number of leading records whose flag is one of the published spellings
RECURSIVE LeadingPublished(_, _)
LeadingPublished(t, r) ==
    IF r > Len(t.rows) THEN 0
    ELSE IF FlagOf(t, r) \in PublishedCells THEN 1 + LeadingPublished(t, r + 1) ELSE 0

EveryRecordPublished(t) ==
    HasFlagColumn(t) /\ \A r \in 1..Len(t.rows) : FlagOf(t, r) \in PublishedCells

SomeRecordOpen(t) ==
    HasFlagColumn(t) /\ \E r \in 1..Len(t.rows) : FlagOf(t, r) \in OpenCells

MissingCredential(e) == \E n \in EnvNames : ~e[n].present \/ e[n].s = <<>>

\* the run got past load_next_riddle with a DataFrame
Selected == Len(stages) >= 1 /\ error \notin LoadErrors

Max(a, b) == IF a >= b THEN a ELSE b

-----------------------------------------------------------------------------
(* C1: with the credentials set, all required columns present, a record    *)
(* unpublished and no external failure, a run that has ended went through  *)
(* the eight stages in order and persisted the selected record's flag as   *)
(* true; MARK_PUBLISHED is entered only after UPLOAD returned.             *)
C1_RunPublishesSelectedRecord ==
    /\ (/\ Ended
        /\ ~MissingCredential(env)
        /\ HasRequiredColumns(excel0)
        /\ SomeRecordOpen(excel0)
        /\ ~extFailed)
       => /\ pc = "exit" /\ error = ""
          /\ stages = AllStages
          /\ idx # 0
          /\ FlagOf(excel, idx) = Bool(TRUE)
    /\ (\E i \in 1..Len(stages) : stages[i] = "MARK_PUBLISHED")
       => calls.upload = 1 /\ Len(uploaded) >= 1 /\ uploaded[Len(uploaded)] = idx

C3_AllPublishedExitsCleanly ==
    (Ended /\ EveryRecordPublished(excel0))
    => /\ pc = "exit" /\ error = ""
       /\ idx = 0
       /\ calls = NoCalls
       /\ excel = excel0

(* C3, amended: the same, for a run whose three credentials are set and a  *)
(* table that has every required column.                                   *)
C3_NoWorkWhenConfigured ==
    (Ended /\ ~MissingCredential(env) /\ HasRequiredColumns(excel0)
           /\ EveryRecordPublished(excel0))
    => /\ pc = "exit" /\ error = ""
       /\ idx = 0
       /\ stages = <<"SELECT_RECORD">>
       /\ calls = NoCalls
       /\ excel = excel0

C3_Witness ==
    /\ pc = "exit" /\ idx = 0 /\ error = ""
    /\ Len(excel0.rows) = MaxRows
    /\ EveryRecordPublished(excel0)
    /\ FlagOf(excel0, 1) = Text(<<"T","R","U","E">>)

(* C4: until MARK_PUBLISHED the persisted table is the one the run started *)
(* from, whatever failed; the run after a failed one starts from that same *)
(* table and selects the same record; and when the failed run's upload had *)
(* returned, the next upload publishes that record a second time.          *)
C4_FailureLeavesTable ==
    /\ (\A i \in 1..Len(stages) : stages[i] # "MARK_PUBLISHED") => excel = excel0
    /\ pc = "failed" => excel = excel0
    /\ prev.outcome = "failed" => excel0 = prev.excel0
    /\ (prev.outcome = "failed" /\ prev.idx # 0 /\ Len(stages) >= 1)
       => error \notin LoadErrors /\ idx = prev.idx
    /\ (prev.outcome = "failed" /\ prev.uploadedIt /\ pc \in {"mark", "exit"}
            /\ calls.upload = 1)
       => /\ Len(uploaded) >= 2
          /\ uploaded[Len(uploaded)] = prev.idx
          /\ uploaded[Len(uploaded) - 1] = prev.idx

C4_Witness ==
    /\ run = 2 /\ prev.outcome = "failed"
    /\ prev.uploadedIt /\ prev.idx = 2
    /\ pc = "exit" /\ uploaded = <<2, 2>>
    /\ FlagOf(excel, 2) = Bool(TRUE)

C6_DurationPadsVoiceAlways ==
    pc = "upload"
    => video.duration = Max(HOOK_DURATION + BODY_DURATION + OPTIONS_DURATION
                               + ANSWER_DURATION, voice + PADDING_AFTER_AUDIO)

(* C6, amended: the final video lasts max(slides, voice + pad) when a      *)
(* music track was selected and max(slides, voice) when none was.          *)
C6_DurationPadsVoiceWithMusic ==
    pc = "upload"
    => video.duration =
         Max(HOOK_DURATION + BODY_DURATION + OPTIONS_DURATION + ANSWER_DURATION,
             IF music.kind = "music" THEN voice + PADDING_AFTER_AUDIO ELSE voice)

C6_Witness ==
    /\ pc = "upload" /\ voice = 2030
    /\ music.kind = "none" /\ video.duration = 2030

Squeeze(name) == StrLower(SelectSeq(name, LAMBDA ch : ~IsSpace(ch)))

\* the column of t that is name up to letter case and spacing (0 = none)
ColumnLike(t, name) ==
    IF \E c \in 1..Len(t.headers) : Squeeze(t.headers[c]) = Squeeze(name)
    THEN CHOOSE c \in 1..Len(t.headers) :
            /\ Squeeze(t.headers[c]) = Squeeze(name)
            /\ \A j \in 1..(c - 1) : Squeeze(t.headers[j]) # Squeeze(name)
    ELSE 0

(* C8: a table whose columns are the required ones up to letter case and   *)
(* spacing is accepted by load_next_riddle, and the fields read afterwards *)
(* come from those columns.                                                *)
C8_ColumnsNormalized ==
    (/\ ~MissingCredential(env)
     /\ excel0.exists
     /\ \A n \in 1..Len(needed) : ColumnLike(excel0, needed[n]) # 0
     /\ pc \notin {"main", "load"})
    => /\ error \notin {"ValueError", "KeyError"}
       /\ pc = "bg" =>
            /\ fields.opt1 = PyStr(ReadCell(excel0.rows[idx][ColumnLike(excel0, cOption_1)]))
            /\ fields.opt2 = PyStr(ReadCell(excel0.rows[idx][ColumnLike(excel0, cOption_2)]))
            /\ fields.opt3 = PyStr(ReadCell(excel0.rows[idx][ColumnLike(excel0, cOption_3)]))
            /\ fields.hook = PyStr(ReadCell(excel0.rows[idx][ColumnLike(excel0, cHook)]))

(* C9: the background is a video if one exists, else the image if it       *)
(* exists, else a solid frame; a video shorter than the target is made of  *)
(* ceil(target/length) whole copies, a longer one of one; and in every     *)
(* case the clip returned lasts exactly the target.                        *)
C9_BackgroundCoversTarget ==
    bpc = "done"
    => /\ clip.duration = duration
       /\ vids # {} => clip.kind = "video" /\ clip.src \in vids
       /\ (vids = {} /\ bgImage) => clip.kind = "image"
       /\ (vids = {} /\ ~bgImage) => clip.kind = "solid"
       /\ (clip.kind = "video" /\ clip.src < duration)
          => /\ clip.copies * clip.src >= duration
             /\ (clip.copies - 1) * clip.src < duration
       /\ (clip.kind = "video" /\ clip.src >= duration) => clip.copies = 1

C9_Witness ==
    /\ bpc = "done" /\ clip.kind = "video" /\ bgImage
    /\ clip.copies = 2 /\ clip.src = 3 /\ duration = 5 /\ clip.duration = 5

RECURSIVE Flatten(_)
Flatten(ls) == IF ls = <<>> THEN <<>> ELSE Head(ls) \o Flatten(Tail(ls))

(* C10: when the wrap is done, no line of two or more words is wider than  *)
(* the canvas less both margins, a word wider than that is alone on its    *)
(* line, and the lines hold the words once each, in their order.           *)
C10_GreedyWrap ==
    wpc = "done"
    => /\ \A l \in 1..Len(lines) :
            Len(lines[l]) >= 2 => TextWidth(words, lines[l]) <= WIDTH - 2 * TEXT_MARGIN
       /\ \A i \in 1..Len(words) :
            words[i] > WIDTH - 2 * TEXT_MARGIN => \E l \in 1..Len(lines) : lines[l] = <<i>>
       /\ Flatten(lines) = [i \in 1..Len(words) |-> i]

C10_Witness ==
    /\ wpc = "done" /\ Len(words) = 4
    /\ words[2] > WIDTH - 2 * TEXT_MARGIN
    /\ lines = <<<<1>>, <<2>>, <<3, 4>>>>

=============================================================================
